---- MODULE Spec2Model ----
(***************************************************************************)
(* rofi-apps: a model of src/rofi-apps.py.                                 *)
(*                                                                         *)
(* The script loads one config document, walks three application          *)
(* directories, wraps every file in an Entry, drops hidden, blacklisted    *)
(* and duplicated entries, sorts the rest by collated name and prints one  *)
(* record per entry.                                                       *)
(*                                                                         *)
(* Text is a sequence of one-character strings; Python's None is the       *)
(* one-element tuple None, which is no text.  A path is the sequence of    *)
(* its components.  A rule (a JSON object) is a function from its keys to  *)
(* patterns.  A pattern is a literal text with an optional leading "^".    *)
(***************************************************************************)
EXTENDS Naturals, Integers, Sequences, FiniteSets, TLC

VARIABLES
    cfgFiles,       \* the three candidate config files on disk
    files,          \* what rglob yields, in walk order, over the three roots
    pc,             \* position of main
    config,         \* <<>> while unbound, <<doc>> once Config(path) returned
    configSource,   \* the key of CONFIG_PATHS that was loaded, or "unset"
    idx,            \* position of the walk in files
    entriesPinned,  \* main's entriesPinned
    entriesSorted,  \* main's entriesSorted
    entries,        \* main's entries (pinned + sorted)
    emitIdx,        \* position of the display loop in entries
    stdout,         \* records printed to standard output
    stderr,         \* lines printed to the error stream
    exitCode,       \* "running" until the process ends, then its status
    mRule, mEntry, mResult, mPc   \* one isolated call of Entry.matchRule

vars == <<cfgFiles, files, pc, config, configSource, idx, entriesPinned,
          entriesSorted, entries, emitIdx, stdout, stderr, exitCode,
          mRule, mEntry, mResult, mPc>>

pipeVars == <<cfgFiles, files, pc, config, configSource, idx, entriesPinned,
              entriesSorted, entries, emitIdx, stdout, stderr, exitCode>>

matchVars == <<mRule, mEntry, mResult, mPc>>

-----------------------------------------------------------------------------
(* Bounds *)

MaxFiles == 2

MaxFilesCfg == 1

-----------------------------------------------------------------------------
(* Values *)

None == <<"None">>

\* str(x) as an f-string renders it: None becomes the text "None"
Str(x) == IF x = None THEN <<"N", "o", "n", "e">> ELSE x

Names == { <<"a">>, <<"a", "b">>, <<"b", "a">>, <<"b">> }

CommandLines == { <<"a">>, <<"b", "a">>, None }

Patterns == { <<>>, <<"a">>, <<"^", "a">>, <<"b">>, <<"^", "b">> }

RuleKeys == { "name", "exec", "comment" }

\* every JSON object over RuleKeys with pattern values, the empty object included
Rules == UNION { [ks -> Patterns] : ks \in SUBSET RuleKeys }

EmptyRule == [k \in {} |-> <<>>]

-----------------------------------------------------------------------------
(* re.search *)

\* the literal lit occurs in s at position i
MatchAt(lit, s, i) ==
    /\ i + Len(lit) - 1 <= Len(s)
    /\ \A k \in 1..Len(lit) : s[i + k - 1] = lit[k]

RECURSIVE ScanFrom(_, _, _)
ScanFrom(lit, s, i) ==
    IF i > Len(s) + 1 THEN FALSE
    ELSE IF MatchAt(lit, s, i) THEN TRUE
    ELSE ScanFrom(lit, s, i + 1)

\* re.search(pat, s) on a string s: a match anywhere in s
re_search(pat, s) ==
    IF pat # <<>> /\ pat[1] = "^" THEN MatchAt(Tail(pat), s, 1)
    ELSE ScanFrom(pat, s, 1)

-----------------------------------------------------------------------------
(* Entry *)

\* Entry.__init__ on a file Gio accepts
Entry(f) == [entry |-> f, customName |-> None]

getNoDisplay(e) == e.entry.noDisplay

\* customName is never set, so the Gio name is returned
getName(e) == IF e.customName # None THEN e.customName ELSE e.entry.name

getCommandLine(e) == e.entry.cmd

getPath(e) == e.entry.path

\* Path(path).name: the last component
getFilename(e) == getPath(e)[Len(getPath(e))]

Bool(b) == IF b THEN "True" ELSE "False"

\* the exec line written "match = ..." where the code has "match &= ..."
matchRule_assign(e, rule) ==
    IF Cardinality(DOMAIN rule) = 0 THEN "False"
    ELSE LET m1 == IF "name" \in DOMAIN rule
                   THEN re_search(rule["name"], getName(e))
                   ELSE TRUE
         IN  IF "exec" \in DOMAIN rule
             THEN IF getCommandLine(e) = None THEN "TypeError"
                  ELSE Bool(re_search(rule["exec"], getCommandLine(e)))
             ELSE Bool(m1)

\* Entry.matchRule: "True", "False", or "TypeError" when re.search is handed
\* None as the string to search
matchRule(e, rule) ==
    IF Cardinality(DOMAIN rule) = 0 THEN "False"
    ELSE LET m1 == IF "name" \in DOMAIN rule
                   THEN re_search(rule["name"], getName(e))
                   ELSE TRUE
         IN  IF "exec" \in DOMAIN rule
             THEN IF getCommandLine(e) = None THEN "TypeError"
                  ELSE Bool(m1 /\ re_search(rule["exec"], getCommandLine(e)))
             ELSE Bool(m1)

-----------------------------------------------------------------------------
(* One call of matchRule on arbitrary inputs *)

MatchEntries ==
    { Entry([path |-> <<"usr", "x">>, noDisplay |-> FALSE, name |-> n, cmd |-> c])
        : n \in Names, c \in CommandLines }

PipeIdle ==
    /\ cfgFiles = <<>>
    /\ files = <<>>
    /\ pc = "idle"
    /\ config = <<>>
    /\ configSource = "unset"
    /\ idx = 1
    /\ entriesPinned = <<>>
    /\ entriesSorted = <<>>
    /\ entries = <<>>
    /\ emitIdx = 1
    /\ stdout = <<>>
    /\ stderr = <<>>
    /\ exitCode = "running"

InitMatch ==
    /\ PipeIdle
    /\ mRule \in Rules
    /\ mEntry \in MatchEntries
    /\ mResult = "none"
    /\ mPc = "call"

CallMatchRule ==
    /\ mPc = "call"
    /\ mResult' = matchRule(mEntry, mRule)
    /\ mPc' = "returned"
    /\ UNCHANGED <<mRule, mEntry>>
    /\ UNCHANGED pipeVars

NextMatch == CallMatchRule

SpecMatch == InitMatch /\ [][NextMatch]_vars

-----------------------------------------------------------------------------
(* Config *)

CfgKeys == { "user", "global", "relative" }

\* the if/elif chain of main tries the candidates in this order
CfgOrder == <<"user", "global", "relative">>

Missing == [kind |-> "missing", doc |-> <<>>]

\* exists, but json.loads raises
BadJson == [kind |-> "badjson", doc |-> <<>>]

\* parses, but one of "blacklist", "pinned", "customs" is absent (KeyError)
NoField == [kind |-> "nofield", doc |-> <<>>]

Ok(d) == [kind |-> "ok", doc |-> <<d>>]

Doc(bl, pn) == [blacklist |-> bl, pinned |-> pn, customs |-> <<>>]

Docs ==
    { Doc(<<>>, <<>>),
      Doc(<<>>, << [name |-> <<"a">>] >>),
      Doc(<< [name |-> <<"^", "a">>] >>, <<>>),
      Doc(<< EmptyRule, [exec |-> <<"b">>] >>, << [name |-> <<"b">>] >>),
      Doc(<< [name |-> <<"b">>, exec |-> <<"a">>] >>, << [exec |-> <<"a">>] >>) }

CfgDocs ==
    { Doc(<<>>, <<>>),
      Doc(<< [name |-> <<"^", "a">>] >>, << [name |-> <<"b">>] >>) }

\* the dict CONFIG_PATHS lists its keys in this order, not the one main uses
SelectConfig_dictOrder(cf) ==
    IF cf["relative"].kind # "missing" THEN "relative"
    ELSE IF cf["global"].kind # "missing" THEN "global"
    ELSE IF cf["user"].kind # "missing" THEN "user"
    ELSE "none"

\* which candidate main hands to Config(): the first whose path exists
SelectConfig(cf) ==
    IF cf["user"].kind # "missing" THEN "user"
    ELSE IF cf["global"].kind # "missing" THEN "global"
    ELSE IF cf["relative"].kind # "missing" THEN "relative"
    ELSE "none"

\* the else branch without sys.exit(1): main goes on with no rules
ConfigNotFound_noExit ==
    /\ stderr' = Append(stderr, <<"[!]", "Config not found.">>)
    /\ pc' = "discover"
    /\ config' = << Doc(<<>>, <<>>) >>
    /\ UNCHANGED <<configSource, exitCode>>

\* print to stderr, sys.exit(1)
ConfigNotFound ==
    /\ stderr' = Append(stderr, <<"[!]", "Config not found.">>)
    /\ pc' = "exit1"
    /\ exitCode' = 1
    /\ UNCHANGED <<config, configSource>>

\* Config.__init__(path): the document, or an exception nothing catches
ConfigInit(key) ==
    IF cfgFiles[key].kind = "ok"
    THEN /\ config' = cfgFiles[key].doc
         /\ configSource' = key
         /\ pc' = "discover"
         /\ UNCHANGED <<stderr, exitCode>>
    ELSE /\ stderr' = Append(stderr, <<"Traceback", key>>)
         /\ pc' = "crashed"
         /\ exitCode' = 1
         /\ UNCHANGED <<config, configSource>>

LoadConfig ==
    /\ pc = "load"
    /\ IF SelectConfig(cfgFiles) = "none"
       THEN ConfigNotFound
       ELSE ConfigInit(SelectConfig(cfgFiles))
    /\ UNCHANGED <<cfgFiles, files, idx, entriesPinned, entriesSorted, entries,
                   emitIdx, stdout>>
    /\ UNCHANGED matchVars

-----------------------------------------------------------------------------
(* The files under the three roots *)

\* ENTRIES_PATHS, in the order main walks them
ENTRIES_PATHS == <<"home", "usrlocal", "usr">>

Filenames == { "x.desktop", "y.desktop" }

NoIcon == [type |-> "none", val |-> None]

\* what a file can hold: a directory, something Gio rejects, or an application
Descs ==
    { [kind |-> "dir", noDisplay |-> FALSE, name |-> None, cmd |-> None,
       icon |-> NoIcon],
      [kind |-> "invalid", noDisplay |-> FALSE, name |-> None, cmd |-> None,
       icon |-> NoIcon],
      [kind |-> "app", noDisplay |-> FALSE, name |-> <<"a", "b">>,
       cmd |-> <<"a">>, icon |-> [type |-> "themed", val |-> <<"i">>]],
      [kind |-> "app", noDisplay |-> TRUE, name |-> <<"b", "a">>,
       cmd |-> <<"b">>, icon |-> [type |-> "file", val |-> <<"/", "p">>]],
      [kind |-> "app", noDisplay |-> FALSE, name |-> <<"b", "a">>,
       cmd |-> None, icon |-> NoIcon],
      [kind |-> "app", noDisplay |-> FALSE, name |-> <<"B">>,
       cmd |-> <<"b", "a">>, icon |-> [type |-> "broken", val |-> None]],
      [kind |-> "app", noDisplay |-> FALSE, name |-> <<"a">>,
       cmd |-> <<"b">>, icon |-> [type |-> "other", val |-> None]] }

File(r, fn, d) ==
    [root |-> r, path |-> <<ENTRIES_PATHS[r], fn>>, kind |-> d.kind,
     noDisplay |-> d.noDisplay, name |-> d.name, cmd |-> d.cmd, icon |-> d.icon]

FileSet == { File(r, fn, d) : r \in 1..Len(ENTRIES_PATHS), fn \in Filenames, d \in Descs }

\* a walk visits the roots in order and every path once
IsWalk(w) ==
    \A i, j \in 1..Len(w) :
        i < j => /\ w[i].root <= w[j].root
                 /\ w[i].path # w[j].path

Walks(n) == { w \in UNION { [1..k -> FileSet] : k \in 0..n } : IsWalk(w) }

-----------------------------------------------------------------------------
(* Entry, continued *)

RECURSIVE isBlacklistedFrom(_, _, _)
isBlacklistedFrom(e, bl, i) ==
    IF i > Len(bl) THEN "False"
    ELSE LET m == matchRule(e, bl[i])
         IN  IF m = "TypeError" THEN "TypeError"
             ELSE IF m = "True" THEN "True"
             ELSE isBlacklistedFrom(e, bl, i + 1)

\* only the first rule is tried
isBlacklisted_firstRule(e, cfg) ==
    IF Len(cfg.blacklist) = 0 THEN "False"
    ELSE matchRule(e, cfg.blacklist[1])

\* Entry.isBlacklisted: "True", "False", or the "TypeError" of a rule
isBlacklisted(e, cfg) == isBlacklistedFrom(e, cfg.blacklist, 1)

\* Entry.getIcon: <<what is returned, what is printed to stderr>>
getIcon(e) ==
    LET icon == e.entry.icon
    IN  CASE icon.type = "none"   -> <<None, <<>>>>
          [] icon.type = "file"   -> <<icon.val, <<>>>>
          [] icon.type = "themed" -> <<icon.val, <<>>>>
          [] icon.type = "broken" ->
                <<None, << <<"[!]", "AttributeError", getFilename(e)>>,
                           <<"[!]", "e">> >> >>
          [] OTHER                -> <<None, <<>>>>

-----------------------------------------------------------------------------
(* Sorting *)

\* what locale.strxfrm makes of a name: its collation weights
Weight == [c \in {"a", "b", "B"} |-> CASE c = "a" -> 1 [] c = "b" -> 2 [] c = "B" -> 3]

\* the code points of the same characters
Ord == [c \in {"a", "b", "B"} |-> CASE c = "B" -> 66 [] c = "a" -> 97 [] c = "b" -> 98]

strxfrm(s) == [i \in 1..Len(s) |-> Weight[s[i]]]

codepoints(s) == [i \in 1..Len(s) |-> Ord[s[i]]]

RECURSIVE KeyLess(_, _)
KeyLess(k1, k2) ==
    IF k2 = <<>> THEN FALSE
    ELSE IF k1 = <<>> THEN TRUE
    ELSE IF Head(k1) # Head(k2) THEN Head(k1) < Head(k2)
    ELSE KeyLess(Tail(k1), Tail(k2))

\* the key main sorts by
SortKey_codepoint(e) == codepoints(getName(e))

SortKey(e) == strxfrm(getName(e))

RECURSIVE Insert(_, _)
Insert(e, s) ==
    IF s = <<>> THEN <<e>>
    ELSE IF KeyLess(SortKey(e), SortKey(Head(s))) THEN <<e>> \o s
    ELSE <<Head(s)>> \o Insert(e, Tail(s))

RECURSIVE SortFrom(_, _, _)
SortFrom(s, i, acc) ==
    IF i > Len(s) THEN acc ELSE SortFrom(s, i + 1, Insert(s[i], acc))

\* list.sort(key=...): stable
SortByName(s) == SortFrom(s, 1, <<>>)

-----------------------------------------------------------------------------
(* main *)

\* one print where the handler has two
ExceptTypeError_oneLine(err, path) ==
    Append(err, <<"[@]", "TypeError while processing", path>>)

\* the except TypeError handler: two lines on stderr
ExceptTypeError(err, path) ==
    err \o << <<"[@]", "TypeError while processing", path>>, <<"[@]", "e">> >>

\* "entry.getFilename() in [e.getFilename() for e in entriesPinned + entriesSorted]"
IsDuplicate(e, pinned, sorted) ==
    \E i \in 1..Len(pinned \o sorted) :
        getFilename((pinned \o sorted)[i]) = getFilename(e)

\* the body of the walk for the file at idx
Process ==
    /\ pc = "discover"
    /\ idx <= Len(files)
    /\ LET f == files[idx]
           e == Entry(f)
       IN  IF f.kind = "dir"
           THEN UNCHANGED <<entriesSorted, stderr>>
           ELSE IF f.kind = "invalid"
           THEN /\ stderr' = ExceptTypeError(stderr, f.path)
                /\ UNCHANGED entriesSorted
           ELSE IF getNoDisplay(e)
           THEN UNCHANGED <<entriesSorted, stderr>>
           ELSE IF isBlacklisted(e, config[1]) = "TypeError"
           THEN /\ stderr' = ExceptTypeError(stderr, f.path)
                /\ UNCHANGED entriesSorted
           ELSE IF isBlacklisted(e, config[1]) = "True"
           THEN UNCHANGED <<entriesSorted, stderr>>
           ELSE IF IsDuplicate(e, entriesPinned, entriesSorted)
           THEN UNCHANGED <<entriesSorted, stderr>>
           ELSE /\ entriesSorted' = Append(entriesSorted, e)
                /\ UNCHANGED stderr
    /\ idx' = idx + 1
    /\ UNCHANGED <<cfgFiles, files, pc, config, configSource, entriesPinned,
                   entries, emitIdx, stdout, exitCode>>
    /\ UNCHANGED matchVars

\* after the walk: sort, concatenate
SortEntries ==
    /\ pc = "discover"
    /\ idx > Len(files)
    /\ entriesSorted' = SortByName(entriesSorted)
    /\ entries' = entriesPinned \o entriesSorted'
    /\ pc' = "emit"
    /\ UNCHANGED <<cfgFiles, files, config, configSource, idx, entriesPinned,
                   emitIdx, stdout, stderr, exitCode>>
    /\ UNCHANGED matchVars

\* the f-string of one record
Record(e) == [name |-> Str(getName(e)), icon |-> Str(getIcon(e)[1]), info |-> Str(getPath(e))]

\* one turn of the display loop; an Entry defines neither __bool__ nor
\* __len__, so "if entry" is true of every entry
EmitEntry ==
    /\ pc = "emit"
    /\ emitIdx <= Len(entries)
    /\ stderr' = stderr \o getIcon(entries[emitIdx])[2]
    /\ stdout' = Append(stdout, Record(entries[emitIdx]))
    /\ emitIdx' = emitIdx + 1
    /\ UNCHANGED <<cfgFiles, files, pc, config, configSource, idx, entriesPinned,
                   entriesSorted, entries, exitCode>>
    /\ UNCHANGED matchVars

\* main returns
Finish ==
    /\ pc = "emit"
    /\ emitIdx > Len(entries)
    /\ pc' = "done"
    /\ exitCode' = 0
    /\ UNCHANGED <<cfgFiles, files, config, configSource, idx, entriesPinned,
                   entriesSorted, entries, emitIdx, stdout, stderr>>
    /\ UNCHANGED matchVars

MatchIdle ==
    /\ mRule = EmptyRule
    /\ mEntry = <<>>
    /\ mResult = "none"
    /\ mPc = "idle"

Start ==
    /\ pc = "load"
    /\ config = <<>>
    /\ configSource = "unset"
    /\ idx = 1
    /\ entriesPinned = <<>>
    /\ entriesSorted = <<>>
    /\ entries = <<>>
    /\ emitIdx = 1
    /\ stdout = <<>>
    /\ stderr = <<>>
    /\ exitCode = "running"
    /\ MatchIdle

\* config candidates that take main through each branch of its if/elif chain
PipelineCfgs ==
    { [user |-> Ok(d), global |-> Missing, relative |-> Missing] : d \in Docs }
    \cup { [user |-> Missing, global |-> Ok(d), relative |-> BadJson] : d \in Docs }
    \cup { [user |-> Missing, global |-> Missing, relative |-> Ok(d)] : d \in Docs }
    \cup { [user |-> Missing, global |-> Missing, relative |-> Missing],
           [user |-> NoField, global |-> Missing, relative |-> Missing] }

Init ==
    /\ cfgFiles \in PipelineCfgs
    /\ files \in Walks(MaxFiles)
    /\ Start

Next == LoadConfig \/ Process \/ SortEntries \/ EmitEntry \/ Finish

Spec == Init /\ [][Next]_vars

\* every combination of candidates, with a short walk behind it
CfgStates == { Missing, BadJson, NoField } \cup { Ok(d) : d \in CfgDocs }

InitConfig ==
    /\ cfgFiles \in [CfgKeys -> CfgStates]
    /\ files \in Walks(MaxFilesCfg)
    /\ Start

SpecConfig == InitConfig /\ [][Next]_vars

-----------------------------------------------------------------------------
(* What the claims speak of *)

\* the literal of pat occurs in s: at the start if pat is anchored, else anywhere
Occurs(pat, s) ==
    LET anchored == pat # <<>> /\ pat[1] = "^"
        lit == IF anchored THEN Tail(pat) ELSE pat
    IN  \E i \in 1..(Len(s) + 1) :
            /\ anchored => i = 1
            /\ i + Len(lit) - 1 <= Len(s)
            /\ SubSeq(s, i, i + Len(lit) - 1) = lit

\* every condition the rule states holds of the entry
ConditionsHold(rule, e) ==
    /\ "name" \in DOMAIN rule => Occurs(rule["name"], getName(e))
    /\ "exec" \in DOMAIN rule =>
          /\ getCommandLine(e) # None
          /\ Occurs(rule["exec"], getCommandLine(e))

\* a rule that has keys and whose conditions all hold
Matches(rule, e) == DOMAIN rule # {} /\ ConditionsHold(rule, e)

Blacklist == config[1].blacklist

Blacklisted(e) == \E i \in 1..Len(Blacklist) : Matches(Blacklist[i], e)

\* the entries main has accumulated
Accumulated == entriesPinned \o entriesSorted

\* the files the walk has been through
Walked == 1..(idx - 1)

Basename(path) == path[Len(path)]

\* a file that is an application, is shown, and that every blacklist rule lets through
Passes(f) ==
    /\ f.kind = "app"
    /\ ~f.noDisplay
    /\ \A i \in 1..Len(Blacklist) : matchRule(Entry(f), Blacklist[i]) = "False"

\* where the walk met the file an entry wraps
DiscoveryIndex(e) == CHOOSE n \in DOMAIN files : files[n].path = getPath(e)

IconAbsent(e) == e.entry.icon.type \notin {"file", "themed"}

-----------------------------------------------------------------------------
(* C1 *)

\* C1 (as stated): a rule with neither "name" nor "exec", whatever other keys
\* it has, makes matchRule return False for every entry.
C1_NoRecognizedKeyNeverMatches ==
    (mPc = "returned" /\ DOMAIN mRule \cap {"name", "exec"} = {})
        => mResult = "False"

-----------------------------------------------------------------------------
(* C7 *)

\* C7: for a rule with at least one key, matchRule returns True exactly when
\* every condition the rule states holds (the name pattern occurs in the display
\* name, the exec pattern occurs in the command line); with "name" as its only
\* key the result is the same for every entry of that display name.
C7_AllPresentConditions ==
    (mPc = "returned" /\ DOMAIN mRule # {}) =>
        /\ mResult = "True" <=> ConditionsHold(mRule, mEntry)
        /\ DOMAIN mRule = {"name"} =>
              \A e2 \in MatchEntries :
                  getName(e2) = getName(mEntry) => matchRule(e2, mRule) = mResult

\* a rule with both keys was tried on an entry and matched
C7_Witness ==
    /\ mPc = "returned"
    /\ DOMAIN mRule = {"name", "exec"}
    /\ mRule["name"] = <<"b">>
    /\ mRule["exec"] = <<"^", "b">>
    /\ mResult = "True"

-----------------------------------------------------------------------------
(* C2 *)

\* C2 (as stated): at most one accumulated entry and one record per filename,
\* and the entry kept for a filename comes from the first root in which an
\* application file of that name was discovered.
C2_FirstRootWins ==
    /\ \A i, j \in 1..Len(Accumulated) :
          i # j => getFilename(Accumulated[i]) # getFilename(Accumulated[j])
    /\ \A k \in 1..Len(Accumulated) : \A i \in Walked :
          (files[i].kind = "app" /\ Basename(files[i].path) = getFilename(Accumulated[k]))
              => Accumulated[k].entry.root <= files[i].root

-----------------------------------------------------------------------------
(* C3 *)

\* what a step of the walk leaves alone when it skips a file
SkipStep ==
    /\ entriesPinned' = entriesPinned
    /\ entriesSorted' = entriesSorted
    /\ stdout' = stdout
    /\ exitCode' = exitCode
    /\ pc' = "discover"
    /\ idx' = idx + 1

AtInvalidFile == pc = "discover" /\ idx <= Len(files) /\ files[idx].kind = "invalid"

NoRecordOfInvalidFile ==
    \A k \in 1..Len(stdout) : \A i \in DOMAIN files :
        files[i].path = stdout[k].info => files[i].kind # "invalid"

\* C3 (as stated): a file that fails descriptor parsing adds exactly one line
\* to the error stream and no record, and the walk goes on with the exit status
\* as it was.
C3_OneDiagnosticLine ==
    [][ /\ AtInvalidFile => (SkipStep /\ Len(stderr') = Len(stderr) + 1)
        /\ NoRecordOfInvalidFile' ]_vars

\* C3 (amended): a file that fails descriptor parsing adds exactly two lines
\* (one "[@]" diagnostic of two lines) to the error stream and no record, and
\* the walk goes on with the exit status as it was.
C3_TwoDiagnosticLines ==
    [][ /\ AtInvalidFile =>
              /\ SkipStep
              /\ Len(stderr') = Len(stderr) + 2
              /\ SubSeq(stderr', 1, Len(stderr)) = stderr
              /\ \A k \in (Len(stderr) + 1)..Len(stderr') : stderr'[k][1] = "[@]"
        /\ NoRecordOfInvalidFile' ]_vars

\* the walk has just been through a file Gio rejects, and goes on
C3_Witness ==
    /\ pc = "discover"
    /\ idx = 2
    /\ idx <= Len(files)
    /\ files[1].kind = "invalid"
    /\ Len(stderr) = 2

-----------------------------------------------------------------------------
(* C4 *)

AllMissing == \A k \in CfgKeys : cfgFiles[k].kind = "missing"

\* C4: with no config file at any candidate path, main prints the diagnostic,
\* exits with status 1, walks nothing and prints no record.
C4_NoConfigExits ==
    (AllMissing /\ pc # "load") =>
        /\ pc = "exit1"
        /\ exitCode = 1
        /\ stderr = << <<"[!]", "Config not found.">> >>
        /\ stdout = <<>>
        /\ idx = 1
        /\ emitIdx = 1
        /\ entriesSorted = <<>>
        /\ entries = <<>>

\* no config anywhere, a file waiting under a root, and main has exited
C4_Witness ==
    /\ AllMissing
    /\ pc = "exit1"
    /\ Len(files) > 0
    /\ files[1].kind = "app"

-----------------------------------------------------------------------------
(* C5 *)

\* the candidate at place i of the order exists and none before it does
FirstExisting(i) ==
    /\ cfgFiles[CfgOrder[i]].kind # "missing"
    /\ \A j \in 1..(i - 1) : cfgFiles[CfgOrder[j]].kind = "missing"

\* C5: the config loaded is the first existing candidate in the order user,
\* global, relative; if that candidate is malformed the process ends with
\* nothing loaded and no later candidate is tried.
C5_FirstExistingLoaded ==
    pc # "load" =>
        \A i \in 1..Len(CfgOrder) :
            FirstExisting(i) =>
                IF cfgFiles[CfgOrder[i]].kind = "ok"
                THEN /\ configSource = CfgOrder[i]
                     /\ config = cfgFiles[CfgOrder[i]].doc
                     /\ pc \notin {"crashed", "exit1"}
                ELSE /\ pc = "crashed"
                     /\ exitCode = 1
                     /\ config = <<>>
                     /\ configSource = "unset"
                     /\ stdout = <<>>
                     /\ idx = 1

\* a malformed global config ended the process although a good relative one exists
C5_Witness ==
    /\ pc = "crashed"
    /\ cfgFiles["user"].kind = "missing"
    /\ cfgFiles["global"].kind = "badjson"
    /\ cfgFiles["relative"].kind = "ok"

-----------------------------------------------------------------------------
(* C6 *)

\* C6: every accumulated entry, and the file behind every record, is shown
\* (NoDisplay false) and matched by no rule of the blacklist.
C6_NoHiddenNoBlacklisted ==
    config # <<>> =>
        /\ \A k \in 1..Len(Accumulated) :
              ~getNoDisplay(Accumulated[k]) /\ ~Blacklisted(Accumulated[k])
        /\ \A k \in 1..Len(entries) :
              ~getNoDisplay(entries[k]) /\ ~Blacklisted(entries[k])
        /\ \A k \in 1..Len(stdout) : \A i \in DOMAIN files :
              files[i].path = stdout[k].info =>
                  /\ files[i].kind = "app"
                  /\ ~files[i].noDisplay
                  /\ ~Blacklisted(Entry(files[i]))

\* a file the second rule of a blacklist matches was walked, and another was printed
C6_Witness ==
    /\ pc = "done"
    /\ Len(stdout) = 1
    /\ Len(Blacklist) = 2
    /\ \E i \in Walked :
          /\ files[i].kind = "app"
          /\ ~files[i].noDisplay
          /\ Matches(Blacklist[2], Entry(files[i]))

-----------------------------------------------------------------------------
(* C8 *)

\* C8 (as stated): every accumulated entry gives one record with its name, its
\* icon and its path, and the icon field is empty when the entry has no icon.
C8_AbsentIconIsEmptyField ==
    pc = "done" =>
        /\ Len(stdout) = Len(Accumulated)
        /\ \A k \in 1..Len(stdout) :
              /\ stdout[k].name = getName(entries[k])
              /\ stdout[k].info = getPath(entries[k])
              /\ stdout[k].icon = IF IconAbsent(entries[k]) THEN <<>>
                                  ELSE entries[k].entry.icon.val

-----------------------------------------------------------------------------
(* C9 *)

\* C9 (as stated): a file that is an application, is shown, is matched by no
\* blacklist rule and whose filename is not accumulated yet is appended to
\* entriesSorted and prints nothing to the error stream.
C9_UnmatchedEntryIsAppended ==
    [][ ( /\ pc = "discover"
          /\ idx <= Len(files)
          /\ files[idx].kind = "app"
          /\ ~files[idx].noDisplay
          /\ ~Blacklisted(Entry(files[idx]))
          /\ \A k \in 1..Len(Accumulated) :
                getFilename(Accumulated[k]) # Basename(files[idx].path) )
        => ( /\ entriesSorted' = Append(entriesSorted, Entry(files[idx]))
             /\ stderr' = stderr ) ]_vars

-----------------------------------------------------------------------------
(* C10 *)

CollatesBefore(n1, n2) == KeyLess(strxfrm(n1), strxfrm(n2))

\* C10: entriesPinned is always empty; what is emitted is entriesSorted, which
\* holds exactly one entry per filename that has a passing file, in
\* nondecreasing collation order of display name with equal names in discovery
\* order; the records follow that order.  Nothing here reads config.pinned.
C10_EmittedInCollationOrder ==
    /\ entriesPinned = <<>>
    /\ pc \in {"emit", "done"} =>
          /\ entries = entriesSorted
          /\ \A i, j \in 1..Len(entries) :
                i < j =>
                    /\ ~CollatesBefore(getName(entries[j]), getName(entries[i]))
                    /\ getName(entries[i]) = getName(entries[j]) =>
                          DiscoveryIndex(entries[i]) < DiscoveryIndex(entries[j])
          /\ \A k \in 1..Len(entries) :
                LET d == DiscoveryIndex(entries[k])
                IN  /\ Entry(files[d]) = entries[k]
                    /\ Passes(files[d])
                    /\ \A j \in 1..(d - 1) :
                          Basename(files[j].path) = Basename(files[d].path)
                              => ~Passes(files[j])
          /\ \A i \in DOMAIN files :
                Passes(files[i]) =>
                    \E k \in 1..Len(entries) :
                        getFilename(entries[k]) = Basename(files[i].path)
          /\ Len(stdout) = emitIdx - 1
          /\ \A k \in 1..Len(stdout) :
                /\ stdout[k].name = getName(entries[k])
                /\ stdout[k].info = getPath(entries[k])
                /\ stdout[k].icon = IF IconAbsent(entries[k]) THEN Str(None)
                                    ELSE entries[k].entry.icon.val
    /\ pc = "done" => Len(stdout) = Len(entries)

\* two entries were printed in the reverse of their discovery order, under a
\* config whose pinned rule matches the first record
C10_Witness ==
    /\ pc = "done"
    /\ Len(stdout) = 2
    /\ DiscoveryIndex(entries[1]) > DiscoveryIndex(entries[2])
    /\ Len(config[1].pinned) > 0
    /\ Matches(config[1].pinned[1], entries[1])

====
